---------------------------- MODULE Spec2Model ----------------------------
(***************************************************************************)
(* A model of cocotb/utils.py: the time-unit conversions with the cached   *)
(* simulator precision, the ParametrizedSingleton metaclass, the colour    *)
(* decision and the traceback trimming.                                    *)
(*                                                                         *)
(* Numbers are exact decimals m * 10^e (as decimal.Decimal and int values  *)
(* are); binary floating-point rounding is not modelled.  Unit names are   *)
(* sequences of one-character strings, so that str.lower() is computed     *)
(* character by character.                                                 *)
(***************************************************************************)
EXTENDS Integers, Sequences, FiniteSets, TLC

VARIABLES
    (* time conversion *)
    simPrecision,       \* what simulator.get_precision() answers in this run
    simTime,            \* <<timeh, timel>> answered by simulator.get_sim_time()
    cached,             \* TRUE once _get_simulator_precision has been rebound
    cachedPrecision,    \* the int the rebound function returns
    getPrecisionCalls,  \* number of simulator.get_precision() invocations
    timeCall,           \* the last conversion call and its outcome
    (* ParametrizedSingleton *)
    instances,          \* cls.__instances: key -> object (0: no entry)
    alive,              \* objects constructed and not yet reclaimed
    refs,               \* object -> number of external strong references
    keyOf,              \* object -> the key it was constructed under
    initCount,          \* object -> number of times its initializer ran
    nextId,             \* identity of the next object to be allocated
    calls,              \* number of construction requests made
    ret,                \* the last construction request and its outcome
    (* want_color_output *)
    isatty,             \* sys.stdout.isatty()
    env,                \* os.environ restricted to the three variables
    colorCall,          \* the last want_color_output() outcome
    (* remove_traceback_frames *)
    tbCall              \* the last remove_traceback_frames call and its outcome

timeVars  == <<simPrecision, simTime, cached, cachedPrecision, getPrecisionCalls, timeCall>>
singVars  == <<instances, alive, refs, keyOf, initCount, nextId, calls, ret>>
colorVars == <<isatty, env, colorCall>>
tbVars    == <<tbCall>>
vars      == <<timeVars, singVars, colorVars, tbVars>>

-----------------------------------------------------------------------------
(* Bounds of the model *)

MaxSteps   == 5     \* step counts and time mantissas range over -MaxSteps..MaxSteps
MaxObjects == 4     \* objects a run may allocate
MaxRefs    == 2     \* external strong references held on one object
MaxCalls   == 6     \* construction requests in one run
MaxTbLen   == 3     \* frames in a traceback, names in frame_names

-----------------------------------------------------------------------------
(* Outcomes of a call: a returned value or a raised exception *)

None == "None"

Value(v) == [kind |-> "value", v |-> <<v>>, info |-> <<>>]

Raise(exc, msg, info) == [kind |-> exc, v |-> <<>>, info |-> <<msg>> \o info]

NoCall == [fn |-> "none"]

-----------------------------------------------------------------------------
(* Exact decimals: [m, e] stands for m * 10^e, m not divisible by 10 *)

RECURSIVE Norm(_, _)
Norm(m, e) ==
    IF m = 0 THEN [m |-> 0, e |-> 0]
    ELSE IF m % 10 = 0 THEN Norm(m \div 10, e + 1)
    ELSE [m |-> m, e |-> e]

RECURSIVE Pow10(_)
Pow10(k) == IF k = 0 THEN 1 ELSE 10 * Pow10(k - 1)

IsInt(x) == x.e >= 0


(* Python's math.floor, math.ceil and round (half to even) on an exact     *)
(* decimal; each returns an int.  Mantissas stay below 10^9, so a value    *)
(* with more than 9 decimal places lies strictly between -1 and 1.         *)

floor(x) ==
    IF x.e >= 0 THEN x
    ELSE IF -x.e > 9 THEN (IF x.m >= 0 THEN Norm(0, 0) ELSE Norm(-1, 0))
    ELSE Norm(x.m \div Pow10(-x.e), 0)

ceil(x) ==
    IF x.e >= 0 THEN x
    ELSE IF -x.e > 9 THEN (IF x.m > 0 THEN Norm(1, 0) ELSE Norm(0, 0))
    ELSE Norm(-((-x.m) \div Pow10(-x.e)), 0)

round(x) ==
    IF x.e >= 0 THEN x
    ELSE IF -x.e > 9 THEN Norm(0, 0)
    ELSE LET P == Pow10(-x.e)
             f == x.m \div P
             r == x.m - f * P
         IN  IF 2 * r < P THEN Norm(f, 0)
             ELSE IF 2 * r > P THEN Norm(f + 1, 0)
             ELSE IF f % 2 = 0 THEN Norm(f, 0) ELSE Norm(f + 1, 0)

-----------------------------------------------------------------------------
(* Unit names and str.lower() *)

UpperChars == <<"A","B","C","D","E","F","G","H","I","J","K","L","M",
                "N","O","P","Q","R","S","T","U","V","W","X","Y","Z">>
LowerChars == <<"a","b","c","d","e","f","g","h","i","j","k","l","m",
                "n","o","p","q","r","s","t","u","v","w","x","y","z">>

LowerOf == [c \in { UpperChars[i] : i \in DOMAIN UpperChars } |->
               LowerChars[CHOOSE i \in DOMAIN UpperChars : UpperChars[i] = c]]

LowerChar(c) == IF c \in DOMAIN LowerOf THEN LowerOf[c] ELSE c

lower(units) == [i \in DOMAIN units |-> LowerChar(units[i])]

step == <<"s","t","e","p">>
fs   == <<"f","s">>
ps   == <<"p","s">>
ns   == <<"n","s">>
us   == <<"u","s">>
ms   == <<"m","s">>
sec  == <<"s","e","c">>

(* the dictionary of _get_log_time_scale *)
scale == (fs :> -15) @@ (ps :> -12) @@ (ns :> -9) @@ (us :> -6) @@ (ms :> -3) @@ (sec :> 0)

_get_log_time_scale(units) ==
    LET units_lwr == lower(units)
    IN  IF units_lwr \notin DOMAIN scale
        THEN Raise("ValueError", "Invalid unit", <<units>>)
        ELSE Value(scale[units_lwr])

(* faulty variant: the division branch multiplies as well *)
_ldexp10_always_multiplies(frac, exp) ==
    IF exp > 0 THEN Norm(frac.m, frac.e + exp)
    ELSE Norm(frac.m, frac.e + (-exp))

(* _ldexp10: multiplication for a positive exponent, division otherwise *)
_ldexp10(frac, exp) ==
    IF exp > 0 THEN Norm(frac.m, frac.e + exp)      \* frac * (10**exp)
    ELSE Norm(frac.m, frac.e - (-exp))              \* frac / (10**-exp)

-----------------------------------------------------------------------------
(* The cached simulator precision *)

(* what _get_simulator_precision() returns when called in this state *)
PrecisionValue == IF cached THEN cachedPrecision ELSE simPrecision

(* faulty variant: the function is never rebound, every call asks the     *)
(* simulator                                                               *)
_get_simulator_precision_uncached ==
    /\ cached' = FALSE
    /\ cachedPrecision' = cachedPrecision
    /\ getPrecisionCalls' = getPrecisionCalls + 1

(* the effect of calling _get_simulator_precision(): the first call asks   *)
(* the simulator and rebinds the function to the answer's __int__          *)
_get_simulator_precision ==
    /\ cached' = TRUE
    /\ cachedPrecision' = PrecisionValue
    /\ getPrecisionCalls' = IF cached THEN getPrecisionCalls ELSE getPrecisionCalls + 1

NoPrecisionCall == UNCHANGED <<cached, cachedPrecision, getPrecisionCalls>>

-----------------------------------------------------------------------------
(* get_time_from_sim_steps *)

(* the precision is read before the unit is looked up *)
get_time_from_sim_steps(steps, units) ==
    LET sc == _get_log_time_scale(units)
    IN  IF sc.kind # "value" THEN sc
        ELSE Value(_ldexp10(steps, PrecisionValue - sc.v[1]))

(* faulty variant: "step" is scaled like any other unit *)
ScaledTime_step_not_special(time, units) ==
    LET sc == _get_log_time_scale(units)
    IN  IF sc.kind # "value" THEN sc
        ELSE Value(_ldexp10(time, sc.v[1] - PrecisionValue))

(* faulty variant: the "error" mode floors silently *)
RoundResult_error_floors(result, time, units, round_mode) ==
    IF round_mode \in {"error", "floor"} THEN Value(floor(result))
    ELSE IF round_mode = "ceil" THEN Value(ceil(result))
    ELSE IF round_mode = "round" THEN Value(round(result))
    ELSE Raise("ValueError", "Invalid round_mode specifier", << <<round_mode>> >>)

(* faulty variant: the "round" mode truncates downwards *)
RoundResult_round_truncates(result, time, units, round_mode) ==
    IF round_mode = "error"
    THEN IF floor(result) # result
         THEN Raise("ValueError", "Unable to accurately represent",
                    <<time, units, PrecisionValue>>)
         ELSE Value(floor(result))
    ELSE IF round_mode = "ceil" THEN Value(ceil(result))
    ELSE IF round_mode = "round" THEN Value(floor(result))
    ELSE IF round_mode = "floor" THEN Value(floor(result))
    ELSE Raise("ValueError", "Invalid round_mode specifier", << <<round_mode>> >>)

(* get_sim_steps: the scaled value, then the rounding *)
ScaledTime(time, units) ==
    IF units # step
    THEN LET sc == _get_log_time_scale(units)
         IN  IF sc.kind # "value" THEN sc
             ELSE Value(_ldexp10(time, sc.v[1] - PrecisionValue))
    ELSE Value(time)

RoundResult(result, time, units, round_mode) ==
    IF round_mode = "error"
    THEN IF floor(result) # result
         THEN Raise("ValueError", "Unable to accurately represent",
                    <<time, units, PrecisionValue>>)
         ELSE Value(floor(result))
    ELSE IF round_mode = "ceil" THEN Value(ceil(result))
    ELSE IF round_mode = "round" THEN Value(round(result))
    ELSE IF round_mode = "floor" THEN Value(floor(result))
    ELSE Raise("ValueError", "Invalid round_mode specifier", << <<round_mode>> >>)

get_sim_steps(time, units, round_mode) ==
    LET sc == ScaledTime(time, units)
    IN  IF sc.kind # "value" THEN sc
        ELSE RoundResult(sc.v[1], time, units, round_mode)

(* whether get_sim_steps calls _get_simulator_precision: for the scaling   *)
(* of a recognised unit, and for the message of the "error" mode           *)
GetSimStepsReadsPrecision(time, units, round_mode) ==
    LET sc == ScaledTime(time, units)
    IN  \/ units # step /\ sc.kind = "value"
        \/ /\ sc.kind = "value"
           /\ round_mode = "error"
           /\ floor(sc.v[1]) # sc.v[1]

(* timeh << 32 | timel, for the times the model draws (timeh = 0)          *)
SimSteps == simTime[1] * 65536 * 65536 + simTime[2]

get_sim_time(units) ==
    IF units # step
    THEN get_time_from_sim_steps(Norm(SimSteps, 0), units)
    ELSE Value(Norm(SimSteps, 0))

-----------------------------------------------------------------------------
(* Inputs of the conversion calls *)

Precisions == {-12, -9}

SimTimes == {<<0, 0>>, <<0, 1500>>}

Units ==
    { step, fs, ps, ns, us, ms, sec,
      <<"S","T","E","P">>, <<"S","t","e","p">>, <<"N","S">>, <<"n","S">>,
      <<"U","s">>, <<"S","e","c">>, <<"F","S">>,
      <<"f","o","r","t","n","i","g","h","t">>, <<"s","t","e","p","s">>, <<>> }

RoundModes == {"error", "round", "ceil", "floor", "nearest"}

StepCounts == { Norm(s, 0) : s \in -MaxSteps..MaxSteps }

(* whole numbers, halves (0.5, 1.5, 2.5, ...) and quarters (0.25, 0.75, ...) *)
Times == StepCounts
         \cup { Norm(5 * s, -1) : s \in -MaxSteps..MaxSteps }
         \cup { Norm(25 * s, -2) : s \in -MaxSteps..MaxSteps }

(* The first conversion call of a run draws its arguments from the full    *)
(* sets above; a later call draws them from the follow-up sets, from the   *)
(* unit the previous call was given and from the value it returned.        *)
FirstCall == timeCall.fn = "none"

FollowUnits == {step, ns, <<"f","o","r","t","n","i","g","h","t">>}

FollowTimes == {Norm(15, -1), Norm(2, 0)}

FollowModes == {"error", "ceil"}

UnitInputs == IF FirstCall THEN Units ELSE FollowUnits \cup {timeCall.units}

StepInputs == IF FirstCall THEN StepCounts ELSE {Norm(1, 0)}

ModeInputs == IF FirstCall THEN RoundModes ELSE FollowModes

TimeInputs ==
    IF FirstCall THEN Times
    ELSE FollowTimes \cup (IF timeCall.fn = "get_time_from_sim_steps"
                              /\ timeCall.out.kind = "value"
                           THEN {timeCall.out.v[1]} ELSE {})

GetSimTime ==
    \E units \in UnitInputs :
        /\ timeCall' = [fn |-> "get_sim_time", arg |-> Norm(SimSteps, 0), units |-> units,
                        round_mode |-> None, out |-> get_sim_time(units)]
        /\ IF units # step THEN _get_simulator_precision ELSE NoPrecisionCall
        /\ UNCHANGED <<simPrecision, simTime>>

GetTimeFromSimSteps ==
    \E steps \in StepInputs, units \in UnitInputs :
        /\ timeCall' = [fn |-> "get_time_from_sim_steps", arg |-> steps, units |-> units,
                        round_mode |-> None, out |-> get_time_from_sim_steps(steps, units)]
        /\ _get_simulator_precision
        /\ UNCHANGED <<simPrecision, simTime>>

GetSimSteps ==
    \E time \in TimeInputs, units \in UnitInputs, round_mode \in ModeInputs :
        /\ timeCall' = [fn |-> "get_sim_steps", arg |-> time, units |-> units,
                        round_mode |-> round_mode,
                        out |-> get_sim_steps(time, units, round_mode)]
        /\ IF GetSimStepsReadsPrecision(time, units, round_mode)
           THEN _get_simulator_precision ELSE NoPrecisionCall
        /\ UNCHANGED <<simPrecision, simTime>>

-----------------------------------------------------------------------------
(* ParametrizedSingleton *)

NumKeys == 2

Keys    == 1..NumKeys
Objects == 1..MaxObjects

(* "Edge" overrides __singleton_key__; "Plain" inherits the metaclass's,   *)
(* which raises NotImplementedError                                        *)
Classes == {"Edge", "Plain"}

(* construction arguments: the signal, passed positionally or by keyword   *)
Args == Keys \X {"positional", "keyword"}

(* the participating class's key: the signal, however it was passed        *)
EdgeKey(args) == args[1]

__singleton_key__(cls, args) ==
    IF cls = "Edge" THEN Value(EdgeKey(args))
    ELSE Raise("NotImplementedError", "", <<>>)

(* WeakValueDictionary.__getitem__: the referent when the entry exists and *)
(* its referent is alive, KeyError otherwise                               *)
WeakGet(key) ==
    IF instances[key] # 0 /\ instances[key] \in alive
    THEN Value(instances[key])
    ELSE Raise("KeyError", "", <<key>>)

(* the request fails before the registry is touched *)
ConstructFails(cls, args, exc) ==
    /\ ret' = [fn |-> "__call__", cls |-> cls, args |-> args, fresh |-> FALSE, out |-> exc]
    /\ UNCHANGED <<instances, alive, refs, keyOf, initCount, nextId>>

(* faulty variant: the initializer runs again on the instance found *)
ConstructHit_reinitializes(cls, args, o) ==
    /\ refs[o] < MaxRefs
    /\ refs' = [refs EXCEPT ![o] = @ + 1]
    /\ initCount' = [initCount EXCEPT ![o] = @ + 1]
    /\ ret' = [fn |-> "__call__", cls |-> cls, args |-> args, fresh |-> FALSE,
               out |-> Value(o)]
    /\ UNCHANGED <<instances, alive, keyOf, nextId>>

(* the registry holds a live instance: it is returned, the caller now      *)
(* holding one more reference to it                                        *)
ConstructHit(cls, args, o) ==
    /\ refs[o] < MaxRefs
    /\ refs' = [refs EXCEPT ![o] = @ + 1]
    /\ ret' = [fn |-> "__call__", cls |-> cls, args |-> args, fresh |-> FALSE, out |-> Value(o)]
    /\ UNCHANGED <<instances, alive, keyOf, initCount, nextId>>

(* no live instance: super().__call__ allocates and initializes one, and   *)
(* it is registered under the key                                          *)
ConstructNew(cls, args, key) ==
    /\ nextId \in Objects
    /\ alive' = alive \cup {nextId}
    /\ initCount' = [initCount EXCEPT ![nextId] = @ + 1]
    /\ keyOf' = [keyOf EXCEPT ![nextId] = key]
    /\ refs' = [refs EXCEPT ![nextId] = 1]
    /\ instances' = [instances EXCEPT ![key] = nextId]
    /\ nextId' = nextId + 1
    /\ ret' = [fn |-> "__call__", cls |-> cls, args |-> args, fresh |-> TRUE, out |-> Value(nextId)]

(* ParametrizedSingleton.__call__ *)
__call__(cls, args) ==
    /\ calls < MaxCalls
    /\ calls' = calls + 1
    /\ LET key == __singleton_key__(cls, args)
       IN  IF key.kind # "value" THEN ConstructFails(cls, args, key)
           ELSE LET got == WeakGet(key.v[1])
                IN  IF got.kind = "value"
                    THEN ConstructHit(cls, args, got.v[1])
                    ELSE ConstructNew(cls, args, key.v[1])

Construct ==
    /\ \E cls \in Classes, args \in Args : __call__(cls, args)
    /\ UNCHANGED <<timeVars, colorVars, tbVars>>

(* a holder of the instance lets go of it *)
DropRef ==
    /\ \E o \in alive :
        /\ refs[o] > 0
        /\ refs' = [refs EXCEPT ![o] = @ - 1]
    /\ UNCHANGED <<instances, alive, keyOf, initCount, nextId, calls, ret>>
    /\ UNCHANGED <<timeVars, colorVars, tbVars>>

(* faulty variant: the entry of a reclaimed instance stays in the registry *)
ReclaimObject_keeps_entry(o) ==
    /\ o \in alive
    /\ refs[o] = 0
    /\ alive' = alive \ {o}
    /\ UNCHANGED <<instances, refs, keyOf, initCount, nextId, calls, ret>>

(* an unreferenced instance is reclaimed; the WeakValueDictionary's        *)
(* callback removes its entry                                              *)
ReclaimObject(o) ==
    /\ o \in alive
    /\ refs[o] = 0
    /\ alive' = alive \ {o}
    /\ instances' = [k \in Keys |-> IF instances[k] = o THEN 0 ELSE instances[k]]
    /\ UNCHANGED <<refs, keyOf, initCount, nextId, calls, ret>>

Reclaim ==
    /\ \E o \in Objects : ReclaimObject(o)
    /\ UNCHANGED <<timeVars, colorVars, tbVars>>

-----------------------------------------------------------------------------
(* want_color_output *)

EnvNames == {"NO_COLOR", "COCOTB_ANSI_OUTPUT", "GUI"}

EnvValues == {None, "", "0", "1"}      \* None: the variable is not set

getenv(name, default) == IF env[name] = None THEN default ELSE env[name]

(* faulty variant: GUI is checked before COCOTB_ANSI_OUTPUT *)
want_color_output_gui_not_last ==
    LET c0 == isatty
        c1 == IF getenv("NO_COLOR", None) # None THEN FALSE ELSE c0
        c2 == IF getenv("GUI", "0") = "1" THEN FALSE ELSE c1
        c3 == IF getenv("COCOTB_ANSI_OUTPUT", "0") = "1" THEN TRUE ELSE c2
    IN  c3

want_color_output ==
    LET c0 == isatty
        c1 == IF getenv("NO_COLOR", None) # None THEN FALSE ELSE c0
        c2 == IF getenv("COCOTB_ANSI_OUTPUT", "0") = "1" THEN TRUE ELSE c1
        c3 == IF getenv("GUI", "0") = "1" THEN FALSE ELSE c2
    IN  c3

WantColorOutput ==
    /\ colorCall' = [fn |-> "want_color_output", out |-> want_color_output]
    /\ UNCHANGED <<isatty, env>>
    /\ UNCHANGED <<timeVars, singVars, tbVars>>

-----------------------------------------------------------------------------
(* remove_traceback_frames *)

(* a traceback is the sequence of its frames' co_name, first frame first;  *)
(* the empty sequence is None, the tb_next of the last frame               *)
CoNames == {"run", "inner"}

SeqsUpTo(S, n) == UNION { [1..k -> S] : k \in 0..n }

Tracebacks == SeqsUpTo(CoNames, MaxTbLen)

FrameNameLists == SeqsUpTo(CoNames, MaxTbLen)

Shapes == {"traceback", "exception", "exc_info"}

(* faulty variant: the frames are dropped without their names being       *)
(* compared                                                                *)
RECURSIVE StripFrames_unchecked(_, _)
StripFrames_unchecked(tb, frame_names) ==
    IF frame_names = <<>> THEN Value(tb)
    ELSE IF tb = <<>>
         THEN Raise("AttributeError", "'NoneType' object has no attribute 'tb_frame'", <<>>)
    ELSE StripFrames_unchecked(Tail(tb), Tail(frame_names))

(* the base case: the loop over frame_names *)
RECURSIVE StripFrames(_, _)
StripFrames(tb, frame_names) ==
    IF frame_names = <<>> THEN Value(tb)
    ELSE IF tb = <<>>
         THEN Raise("AttributeError", "'NoneType' object has no attribute 'tb_frame'", <<>>)
    ELSE IF Head(tb) # Head(frame_names)
         THEN Raise("AssertionError", "", <<>>)
    ELSE StripFrames(Tail(tb), Tail(frame_names))

(* tb_or_exc is [shape, tb]: a traceback, an exception carrying one, or an *)
(* exc_info tuple carrying one; the result has the shape of the argument   *)
remove_traceback_frames(tb_or_exc, frame_names) ==
    LET r == StripFrames(tb_or_exc.tb, frame_names)
    IN  IF r.kind # "value" THEN r
        ELSE Value([shape |-> tb_or_exc.shape, tb |-> r.v[1]])

(* a run makes one call *)
RemoveTracebackFrames ==
    /\ tbCall.fn = "none"
    /\ \E shape \in Shapes, tb \in Tracebacks, frame_names \in FrameNameLists :
          LET arg == [shape |-> shape, tb |-> tb]
          IN  tbCall' = [fn |-> "remove_traceback_frames", arg |-> arg,
                         frame_names |-> frame_names,
                         out |-> remove_traceback_frames(arg, frame_names)]
    /\ UNCHANGED <<timeVars, singVars, colorVars>>

-----------------------------------------------------------------------------
(* The specifications: one per part of the module.  Each starts from the   *)
(* state of a freshly imported module: nothing cached, no class instance,  *)
(* no call made; the simulator's precision and time, and the process's     *)
(* terminal and environment, are what the run finds.                       *)

InitTime ==
    /\ simPrecision \in Precisions
    /\ simTime \in SimTimes
    /\ cached = FALSE
    /\ cachedPrecision = 0
    /\ getPrecisionCalls = 0
    /\ timeCall = NoCall
    /\ instances = [k \in Keys |-> 0]
    /\ alive = {}
    /\ refs = [o \in Objects |-> 0]
    /\ keyOf = [o \in Objects |-> 0]
    /\ initCount = [o \in Objects |-> 0]
    /\ nextId = 1
    /\ calls = 0
    /\ ret = NoCall
    /\ isatty = FALSE
    /\ env = [n \in EnvNames |-> None]
    /\ colorCall = NoCall
    /\ tbCall = NoCall

NextTime ==
    \/ GetSimTime /\ UNCHANGED <<singVars, colorVars, tbVars>>
    \/ GetTimeFromSimSteps /\ UNCHANGED <<singVars, colorVars, tbVars>>
    \/ GetSimSteps /\ UNCHANGED <<singVars, colorVars, tbVars>>

SpecTime == InitTime /\ [][NextTime]_vars

InitSingleton ==
    /\ simPrecision = -12
    /\ simTime = <<0, 0>>
    /\ cached = FALSE
    /\ cachedPrecision = 0
    /\ getPrecisionCalls = 0
    /\ timeCall = NoCall
    /\ instances = [k \in Keys |-> 0]
    /\ alive = {}
    /\ refs = [o \in Objects |-> 0]
    /\ keyOf = [o \in Objects |-> 0]
    /\ initCount = [o \in Objects |-> 0]
    /\ nextId = 1
    /\ calls = 0
    /\ ret = NoCall
    /\ isatty = FALSE
    /\ env = [n \in EnvNames |-> None]
    /\ colorCall = NoCall
    /\ tbCall = NoCall

NextSingleton == Construct \/ DropRef \/ Reclaim

SpecSingleton == InitSingleton /\ [][NextSingleton]_vars

InitColor ==
    /\ simPrecision = -12
    /\ simTime = <<0, 0>>
    /\ cached = FALSE
    /\ cachedPrecision = 0
    /\ getPrecisionCalls = 0
    /\ timeCall = NoCall
    /\ instances = [k \in Keys |-> 0]
    /\ alive = {}
    /\ refs = [o \in Objects |-> 0]
    /\ keyOf = [o \in Objects |-> 0]
    /\ initCount = [o \in Objects |-> 0]
    /\ nextId = 1
    /\ calls = 0
    /\ ret = NoCall
    /\ isatty \in BOOLEAN
    /\ env \in [EnvNames -> EnvValues]
    /\ colorCall = NoCall
    /\ tbCall = NoCall

NextColor == WantColorOutput

SpecColor == InitColor /\ [][NextColor]_vars

InitTraceback ==
    /\ simPrecision = -12
    /\ simTime = <<0, 0>>
    /\ cached = FALSE
    /\ cachedPrecision = 0
    /\ getPrecisionCalls = 0
    /\ timeCall = NoCall
    /\ instances = [k \in Keys |-> 0]
    /\ alive = {}
    /\ refs = [o \in Objects |-> 0]
    /\ keyOf = [o \in Objects |-> 0]
    /\ initCount = [o \in Objects |-> 0]
    /\ nextId = 1
    /\ calls = 0
    /\ ret = NoCall
    /\ isatty = FALSE
    /\ env = [n \in EnvNames |-> None]
    /\ colorCall = NoCall
    /\ tbCall = NoCall

NextTraceback == RemoveTracebackFrames

SpecTraceback == InitTraceback /\ [][NextTraceback]_vars

-----------------------------------------------------------------------------
(* Properties of ParametrizedSingleton (under SpecSingleton) *)

LiveEntry(k) == instances[k] # 0 /\ instances[k] \in alive

(* objects that were constructed and have been reclaimed *)
Reclaimed == { o \in Objects : o < nextId /\ o \notin alive }

(* the step is a construction request that returned an object *)
ConstructReturned == calls' = calls + 1 /\ ret'.out.kind = "value"

OneLivePerKey ==
    \A o1, o2 \in alive : keyOf[o1] = keyOf[o2] => o1 = o2

C1_Step ==
    ConstructReturned =>
        LET k == EdgeKey(ret'.args)
            o == ret'.out.v[1]
        IN  IF LiveEntry(k)
            THEN /\ o = instances[k]
                 /\ initCount' = initCount
                 /\ alive' = alive
                 /\ instances' = instances
            ELSE /\ o \notin alive
                 /\ initCount[o] = 0
                 /\ initCount' = [initCount EXCEPT ![o] = 1]
                 /\ alive' = alive \cup {o}
                 /\ instances' = [instances EXCEPT ![k] = o]

(* C1: at most one live instance exists per key; a construction request    *)
(* whose key has a live registered instance returns that very instance     *)
(* and runs no initializer, and only a request whose key has no live       *)
(* instance constructs (initializes once) and registers a new one.         *)
C1_OneLiveInstancePerKey == []OneLivePerKey /\ [][C1_Step]_vars

(* a request passing the signal by keyword was answered with the instance  *)
(* already registered                                                      *)
C1_Witness ==
    /\ ret.fn = "__call__"
    /\ ret.out.kind = "value"
    /\ ~ret.fresh
    /\ ret.args[2] = "keyword"
    /\ calls >= 2
    /\ initCount[ret.out.v[1]] = 1

NoStaleEntry ==
    \A k \in Keys :
        instances[k] # 0 => instances[k] \in alive /\ keyOf[instances[k]] = k

C2_Step ==
    /\ \A o \in alive \ alive' : refs[o] = 0 /\ instances'[keyOf[o]] = 0
    /\ ConstructReturned =>
        LET k == EdgeKey(ret'.args)
            o == ret'.out.v[1]
        IN  /\ o \notin Reclaimed
            /\ o \in alive'
            /\ instances'[k] = o
            /\ (~LiveEntry(k) => o \notin alive /\ o >= nextId)

(* C2: the registry holds instances weakly: an instance is reclaimed only  *)
(* when unreferenced, its entry is gone once it is reclaimed, the next     *)
(* request with its key constructs and registers an object distinct from   *)
(* every reclaimed one, and a following request returns that new object.   *)
C2_WeakRegistry == []NoStaleEntry /\ [][C2_Step]_vars

(* after an instance of the key was reclaimed, a request with the key was  *)
(* answered with the live instance constructed since                       *)
C2_Witness ==
    /\ ret.fn = "__call__"
    /\ ret.out.kind = "value"
    /\ ~ret.fresh
    /\ ret.out.v[1] \in alive
    /\ \E d \in Reclaimed : keyOf[d] = EdgeKey(ret.args)

-----------------------------------------------------------------------------
(* Properties of the time conversions (under SpecTime) *)

ValidModes == {"error", "round", "ceil", "floor"}

IsStepsCall == timeCall.fn = "get_sim_steps"

IsTimeCall == timeCall.fn = "get_time_from_sim_steps"

(* C3, as stated: "step" is the identity in both directions:               *)
(* get_time_from_sim_steps(S, "step") returns S and get_sim_steps(T,       *)
(* "step") returns T for every integer T.                                  *)
C3_StepIdentityBothWays ==
    /\ IsTimeCall /\ timeCall.units = step => timeCall.out = Value(timeCall.arg)
    /\ (IsStepsCall /\ timeCall.units = step /\ IsInt(timeCall.arg)
           /\ timeCall.round_mode = "error")
         => timeCall.out = Value(timeCall.arg)

C3_Inv ==
    /\ (IsStepsCall /\ timeCall.units = step /\ IsInt(timeCall.arg)
           /\ timeCall.round_mode \in ValidModes)
         => timeCall.out = Value(timeCall.arg)
    /\ timeCall.fn = "get_sim_time" /\ timeCall.units = step
         => timeCall.out = Value(Norm(simTime[2], 0))
    /\ IsTimeCall /\ timeCall.units = step
         => /\ timeCall.out.kind = "ValueError"
            /\ timeCall.out.info = <<"Invalid unit", step>>

C3_Step ==
    (/\ timeCall' # timeCall
     /\ timeCall'.fn \in {"get_sim_steps", "get_sim_time"}
     /\ timeCall'.units = step
     /\ timeCall'.out.kind = "value")
    => UNCHANGED <<cached, cachedPrecision, getPrecisionCalls>>

(* C3, amended: get_sim_steps(T, "step") returns the integer T unchanged   *)
(* under every valid round_mode and get_sim_time("step") returns the raw   *)
(* step count, neither reading the simulator precision;                    *)
(* get_time_from_sim_steps(S, "step") returns nothing: it raises the       *)
(* ValueError "Invalid unit (step)".                                       *)
C3_StepIdentity == []C3_Inv /\ [][C3_Step]_vars

(* get_sim_steps(T, "step") has returned a non-zero T as the first call,   *)
(* the precision still unread                                              *)
C3_Witness ==
    /\ IsStepsCall
    /\ timeCall.units = step
    /\ timeCall.arg = Norm(3, 0)
    /\ timeCall.out = Value(Norm(3, 0))
    /\ ~cached
    /\ getPrecisionCalls = 0

SixUnits == DOMAIN scale

ScaledExp == timeCall.arg.e + scale[lower(timeCall.units)] - simPrecision

ScaledIsInteger == timeCall.arg.m = 0 \/ ScaledExp >= 0

IsScaledStepsCall == IsStepsCall /\ lower(timeCall.units) \in SixUnits

(* C5: with round_mode "error" and a scaled unit, get_sim_steps raises a   *)
(* ValueError exactly when time * 10^(scale[units] - precision) is not an  *)
(* integer, the error carrying the time, the unit and the precision        *)
(* exponent; otherwise it returns exactly that integer.                    *)
C5_ErrorMode ==
    (IsScaledStepsCall /\ timeCall.round_mode = "error") =>
        IF ScaledIsInteger
        THEN timeCall.out = Value(Norm(timeCall.arg.m, ScaledExp))
        ELSE /\ timeCall.out.kind = "ValueError"
             /\ timeCall.out.v = <<>>
             /\ timeCall.out.info = <<"Unable to accurately represent",
                                      timeCall.arg, timeCall.units, simPrecision>>

(* 1.5 ps at a precision of 1e-9 has been refused *)
C5_Witness ==
    /\ IsStepsCall
    /\ timeCall.units = ps
    /\ timeCall.round_mode = "error"
    /\ timeCall.arg = [m |-> 15, e |-> -1]
    /\ simPrecision = -9
    /\ timeCall.out.kind = "ValueError"

Abs(n) == IF n < 0 THEN -n ELSE n

(* r is the integer the mode asks for, x = m * 10^(-k) not being one.      *)
(* For k > 6 the model's mantissas (below 10^6) give 0 < |x| < 1.          *)
RoundedAsAsked(mode, r, m, k) ==
    IF k > 6
    THEN /\ Abs(m) < 1000000
         /\ CASE mode = "floor" -> r = (IF m > 0 THEN 0 ELSE -1)
              [] mode = "ceil"  -> r = (IF m > 0 THEN 1 ELSE 0)
              [] mode = "round" -> r = 0
    ELSE LET P == Pow10(k)
         IN  CASE mode = "floor" -> r * P <= m /\ m < (r + 1) * P
               [] mode = "ceil"  -> (r - 1) * P < m /\ m <= r * P
               [] mode = "round" -> 2 * Abs(m - r * P) <= P

(* C6: for a scaled value x, get_sim_steps returns the smallest integer    *)
(* >= x under "ceil", the largest integer <= x under "floor" and an        *)
(* integer nearest to x under "round" (x itself, under all three, when x   *)
(* is an integer); a round_mode outside {error, round, ceil, floor} raises *)
(* a ValueError naming the mode and returns nothing.                       *)
C6_RoundingModes ==
    IsScaledStepsCall =>
        /\ timeCall.round_mode \notin ValidModes =>
              /\ timeCall.out.kind = "ValueError"
              /\ timeCall.out.v = <<>>
              /\ timeCall.out.info = <<"Invalid round_mode specifier", <<timeCall.round_mode>> >>
        /\ timeCall.round_mode \in {"ceil", "floor", "round"} =>
              /\ timeCall.out.kind = "value"
              /\ IsInt(timeCall.out.v[1])
              /\ IF ScaledIsInteger
                 THEN timeCall.out.v[1] = Norm(timeCall.arg.m, ScaledExp)
                 ELSE /\ timeCall.out.v[1].e <= 6
                      /\ RoundedAsAsked(timeCall.round_mode,
                                        timeCall.out.v[1].m * Pow10(timeCall.out.v[1].e),
                                        timeCall.arg.m, -ScaledExp)

(* 2.5 ns at a precision of 1e-9 has been rounded, at the .5 boundary, to  *)
(* 2 steps                                                                 *)
C6_Witness ==
    /\ IsStepsCall
    /\ timeCall.units = ns
    /\ timeCall.round_mode = "round"
    /\ timeCall.arg = [m |-> 25, e |-> -1]
    /\ simPrecision = -9
    /\ timeCall.out = Value(Norm(2, 0))

Recognized == SixUnits \cup {step}

(* the same outcome: the same exception, or the same returned value *)
SameOutcome(a, b) == a.kind = b.kind /\ a.v = b.v

(* C8: unit names are case-insensitive and closed: a call whose unit is a  *)
(* case variant of step, fs, ps, ns, us, ms or sec has the outcome of the  *)
(* call with the lower-case name, and a call with any other unit raises a  *)
(* ValueError naming the unit.                                             *)
C8_UnitsCaseInsensitive ==
    /\ IsStepsCall =>
          IF lower(timeCall.units) \in Recognized
          THEN SameOutcome(timeCall.out,
                           get_sim_steps(timeCall.arg, lower(timeCall.units),
                                         timeCall.round_mode))
          ELSE /\ timeCall.out.kind = "ValueError"
               /\ timeCall.out.info = <<"Invalid unit", timeCall.units>>
    /\ IsTimeCall =>
          IF lower(timeCall.units) \in Recognized
          THEN SameOutcome(timeCall.out,
                           get_time_from_sim_steps(timeCall.arg, lower(timeCall.units)))
          ELSE /\ timeCall.out.kind = "ValueError"
               /\ timeCall.out.info = <<"Invalid unit", timeCall.units>>

C10_Inv ==
    /\ getPrecisionCalls <= 1
    /\ cached <=> getPrecisionCalls = 1
    /\ cached => cachedPrecision = simPrecision
    /\ (timeCall.fn \in {"get_time_from_sim_steps", "get_sim_time"}
           /\ timeCall.out.kind = "value" /\ timeCall.units # step)
         => /\ cached
            /\ timeCall.out =
                 Value(Norm(timeCall.arg.m,
                            timeCall.arg.e + simPrecision - scale[lower(timeCall.units)]))

C10_Step ==
    cached => /\ cached'
              /\ cachedPrecision' = cachedPrecision
              /\ getPrecisionCalls' = getPrecisionCalls

(* C10: over any sequence of conversion calls simulator.get_precision is   *)
(* invoked at most once: the first call that needs the precision fetches   *)
(* and caches it, no later call fetches again, and every conversion uses   *)
(* that one precision.                                                     *)
C10_PrecisionFetchedOnce == []C10_Inv /\ [][C10_Step]_vars

(* a second conversion (the way back of a round trip) has used the         *)
(* precision after a single fetch                                          *)
C10_Witness ==
    /\ IsStepsCall
    /\ timeCall.arg = [m |-> 3, e |-> -6]
    /\ timeCall.units = us
    /\ timeCall.out.kind = "value"
    /\ cached
    /\ getPrecisionCalls = 1

-----------------------------------------------------------------------------
(* Properties of want_color_output (under SpecColor) *)

NoVariableSet == \A n \in EnvNames : env[n] = None

(* C7: no TTY and no variable set gives false; a TTY and no variable set   *)
(* gives true; NO_COLOR set to any value on a TTY gives false;             *)
(* COCOTB_ANSI_OUTPUT = "1" gives true even without a TTY and even with    *)
(* NO_COLOR; GUI = "1" gives false whatever the other three inputs are     *)
(* (each rule yielding to the rules after it).                             *)
C7_ColorDecision ==
    colorCall.fn = "want_color_output" =>
        /\ (~isatty /\ NoVariableSet) => colorCall.out = FALSE
        /\ (isatty /\ NoVariableSet) => colorCall.out = TRUE
        /\ (isatty /\ env["NO_COLOR"] # None /\ env["COCOTB_ANSI_OUTPUT"] # "1"
               /\ env["GUI"] # "1") => colorCall.out = FALSE
        /\ (env["COCOTB_ANSI_OUTPUT"] = "1" /\ env["GUI"] # "1") => colorCall.out = TRUE
        /\ env["GUI"] = "1" => colorCall.out = FALSE

(* colour was refused on a TTY with COCOTB_ANSI_OUTPUT = "1", GUI = "1"    *)
C7_Witness ==
    /\ colorCall.fn = "want_color_output"
    /\ isatty
    /\ env["COCOTB_ANSI_OUTPUT"] = "1"
    /\ env["GUI"] = "1"
    /\ env["NO_COLOR"] = None
    /\ colorCall.out = FALSE

-----------------------------------------------------------------------------
(* Properties of remove_traceback_frames (under SpecTraceback) *)

Min(a, b) == IF a < b THEN a ELSE b

(* the leading frames carry the listed names, in order *)
LeadingFramesMatch(tb, names) ==
    /\ Len(names) <= Len(tb)
    /\ \A i \in 1..Len(names) : tb[i] = names[i]

(* a listed name differs from the frame at its position *)
NameMismatch(tb, names) ==
    \E i \in 1..Min(Len(tb), Len(names)) : tb[i] # names[i]

Trimmed(arg, names) ==
    [shape |-> arg.shape, tb |-> SubSeq(arg.tb, Len(names) + 1, Len(arg.tb))]

(* C9, as stated: the result is the argument's shape with the first        *)
(* len(frame_names) frames removed when the leading frames carry the       *)
(* listed names in order; in every other case, a frame_names list longer   *)
(* than the traceback included, the call fails with an assertion error.    *)
C9_AssertionInEveryOtherCase ==
    tbCall.fn = "remove_traceback_frames" =>
        IF LeadingFramesMatch(tbCall.arg.tb, tbCall.frame_names)
        THEN tbCall.out = Value(Trimmed(tbCall.arg, tbCall.frame_names))
        ELSE tbCall.out.kind = "AssertionError" /\ tbCall.out.v = <<>>

(* C9, amended: as stated when the leading frames match; a name that       *)
(* differs from the frame at its position fails with an assertion error;   *)
(* a frame_names list longer than the traceback, all of whose frames       *)
(* match, fails with an AttributeError (the traceback has run out), not    *)
(* an assertion error; a failing call returns nothing.                     *)
C9_TrimOrFail ==
    tbCall.fn = "remove_traceback_frames" =>
        IF LeadingFramesMatch(tbCall.arg.tb, tbCall.frame_names)
        THEN tbCall.out = Value(Trimmed(tbCall.arg, tbCall.frame_names))
        ELSE IF NameMismatch(tbCall.arg.tb, tbCall.frame_names)
        THEN tbCall.out.kind = "AssertionError" /\ tbCall.out.v = <<>>
        ELSE tbCall.out.kind = "AttributeError" /\ tbCall.out.v = <<>>

(* two matching frames were removed from an exception's three-frame        *)
(* traceback                                                               *)
C9_Witness ==
    /\ tbCall.fn = "remove_traceback_frames"
    /\ tbCall.arg.shape = "exception"
    /\ tbCall.arg.tb = <<"run", "inner", "run">>
    /\ tbCall.frame_names = <<"run", "inner">>
    /\ tbCall.out = Value([shape |-> "exception", tb |-> <<"run">>])

=============================================================================
